---- MODULE Spec2Model ----
(***************************************************************************)
(* Model of the IronShield client.                                         *)
(*                                                                         *)
(* Spec / LiveSpec: the proof-of-work solver (src/src/solve.rs):           *)
(* solve_challenge, the single-threaded path, and the multithreaded        *)
(* coordinator (solve_multithreaded / wait_for_solution) together with the *)
(* blocking workers it spawns and their progress callbacks.                *)
(*                                                                         *)
(* ConfigSpec: the operations on a ClientConfig (src/src/config.rs) and    *)
(* SolveConfig::new.                                                       *)
(*                                                                         *)
(* ClientSpec: IronShieldClient (src/src/request.rs), the response         *)
(* envelope (src/src/response.rs) and validate_challenge                   *)
(* (src/src/validate.rs).                                                  *)
(*                                                                         *)
(* FairSpec: the solver with every blocking task scheduled fairly.         *)
(*                                                                         *)
(* DisplaySpec: ProgressAnimation, show_progress_animation and             *)
(* format_number_with_commas (src/src/display.rs), as solve_challenge      *)
(* uses them and under other sequences of start and stop calls.            *)
(*                                                                         *)
(* ProgressSpec: the closures of create_progress_callback with the batch   *)
(* sizes and elapsed times they are called with.                           *)
(***************************************************************************)
EXTENDS Integers, Sequences, FiniteSets, TLC

\* ------------------------------------------------------------------ bounds
MaxThreads == 3      \* largest num_threads override explored
MaxCores   == 3      \* largest num_cpus::get() explored
MaxNonce   == 4      \* nonce space bound of a worker: nonces 0..MaxNonce
BatchSize  == 2      \* hash calls between two progress callbacks
MaxCalls   == 3      \* calls of start and stop outside solve_challenge
MaxFrames  == 2      \* spinner frames before the flag is cleared
MaxReports == 3      \* calls of one progress callback
MaxSol     == 2      \* at most this many nonces satisfy the oracle

\* the largest thread_count the inputs can produce
MaxWorkers ==
    IF MaxThreads >= (MaxCores * 4) \div 5 THEN MaxThreads
    ELSE (MaxCores * 4) \div 5

Threads == 0 .. (MaxWorkers - 1)
Nonces  == 0 .. MaxNonce

\* Option<usize>: <<>> is None, <<n>> is Some(n)
None      == <<>>
Some(n)   == <<n>>
IsSome(o) == Len(o) = 1
Unwrap(o) == o[1]

\* results of workers, of the coordinator and of solve_challenge
NoResult      == [kind |-> "None", nonce |-> -1]
OkResult(n)   == [kind |-> "Ok", nonce |-> n]
ErrResult(k)  == [kind |-> k, nonce |-> -1]

VARIABLES
    num_threads,        \* config.num_threads
    use_multithreaded,  \* argument of solve_challenge
    sol,                \* the nonces the hash oracle accepts
    pc,                 \* position of the solve_challenge task
    thread_count,       \* solve_config.thread_count
    flag_created,       \* solve_multithreaded created the AtomicBool
    solution_found,     \* the AtomicBool
    thread_id,          \* loop variable of the spawn loop
    handles,            \* Vec<JoinHandle>, as the ids of the spawned tasks
    other_handles,      \* the rest returned by select_all
    thread_index,       \* index returned by select_all
    found,              \* the result select_all surfaced
    aborted,            \* tasks whose handle had abort() called
    workers,            \* per worker: state of the blocking task
    coord_ret,          \* values returned by the solving strategy (line 92-96)
    outcome,            \* what solve_challenge returned
    config,             \* the ClientConfig value
    op,                 \* the last ClientConfig operation and what it returned
    file,               \* the contents of the configuration file
    client,             \* what IronShieldClient::new returned
    cpc,                \* position of the task using the client
    sent,               \* the HTTP requests put on the wire, in order
    calls,              \* the steps validate_challenge made, with results
    validated,          \* what validate_challenge returned
    scenario,           \* who uses the ProgressAnimation: solve_challenge or other calls
    verbose,            \* ProgressAnimation.verbose
    running,            \* ProgressAnimation.running, the AtomicBool
    tasks,              \* the animation tasks spawned so far
    handle,             \* the Option<JoinHandle> the caller holds
    awaited,            \* the handle passed to the stop call in progress
    stdout,             \* what was written to the terminal, in order
    caller,             \* position of the task calling start and stop
    strategy_result,    \* what the solving strategy returned to solve_challenge
    ncalls,             \* calls of start and stop made outside solve_challenge
    recommended_attempts, \* challenge.recommended_attempts
    progress            \* per progress callback: its counter and its events

\* the state outside the solver
terminal == << scenario, verbose, running, tasks, handle, awaited, stdout,
               caller, strategy_result, ncalls, recommended_attempts >>

library == << config, op, file, client, cpc, sent, calls, validated,
              terminal, progress >>

vars == << num_threads, use_multithreaded, sol, pc,
           thread_count, flag_created, solution_found, thread_id, handles,
           other_handles, thread_index, found, aborted, workers, coord_ret,
           outcome, library >>

\* what a run of the solver never writes
inputs == << num_threads, use_multithreaded, sol, library >>

coord == << pc, thread_count, flag_created, solution_found, thread_id, handles,
            other_handles, thread_index, found, aborted, coord_ret, outcome >>

\* ------------------------------------------------------------- pure parts
Max(a, b) == IF a >= b THEN a ELSE b

\* mutant: the derived thread count is not raised to 1
SolveConfigNewNoMin(nt, cores, multi) ==
    IF multi
    THEN IF IsSome(nt) THEN Unwrap(nt) ELSE (cores * 4) \div 5
    ELSE 1

\* SolveConfig::new: thread_count
SolveConfigNew(nt, cores, multi) ==
    IF multi
    THEN IF IsSome(nt) THEN Unwrap(nt) ELSE Max(1, (cores * 4) \div 5)
    ELSE 1

\* solve_challenge: the strategy choice
UseMultiPath(multi, tc) == multi /\ tc > 1

\* mutant: the flag is created already set
FlagInitialTrue == TRUE

\* solve_multithreaded: the AtomicBool starts false
FlagInitial == FALSE

\* mutant: every worker starts at offset 0
ThreadOffsetZero(tid) == 0

\* mutant: the flag is never set
StoreValueFalse == FALSE

\* solve_multithreaded: stride and offset handed to worker thread_id
ThreadStride(tc)  == tc
ThreadOffset(tid) == tid

\* the single-threaded core function searches every nonce from 0
SingleOffset == 0
SingleStride == 1

\* the nonces a worker with this offset and stride visits
Progression(offset, stride) ==
    { n \in Nonces : n >= offset /\ (n - offset) % stride = 0 }

\* a worker that was never spawned
Unspawned ==
    [ st |-> "unspawned", offset |-> 0, stride |-> 1, nonce |-> 0,
      batch |-> 0, cumulative |-> 0, emitted |-> 0, cb |-> FALSE,
      ph |-> "search", res |-> NoResult ]

\* the blocking task right after spawn_blocking
Spawned(offset, stride, hasCallback) ==
    [ st |-> "queued", offset |-> offset, stride |-> stride, nonce |-> offset,
      batch |-> 0, cumulative |-> 0, emitted |-> 0, cb |-> hasCallback,
      ph |-> "search", res |-> NoResult ]

\* a JoinHandle is ready when its task has finished, panicked or was cancelled
Ready(i) == workers[i].st \in {"finished", "panicked", "cancelled"}

\* what awaiting the JoinHandle of task i yields
JoinResult(i) ==
    IF workers[i].st = "finished" THEN workers[i].res ELSE ErrResult("JoinError")

\* mutant: select_all hands the whole vector back
SwapRemoveKeeps(s, idx) == s

\* Vec::swap_remove
SwapRemove(s, idx) ==
    [ j \in 1 .. (Len(s) - 1) |-> IF j = idx THEN s[Len(s)] ELSE s[j] ]

\* select_all: the first ready future in vector order
SelectAllIndex(hs) ==
    CHOOSE j \in 1 .. Len(hs) :
        Ready(hs[j]) /\ \A m \in 1 .. (j - 1) : ~Ready(hs[m])

\* ------------------------------------------------- results of the library
\* ResultHandler<T>: Ok(value) or Err(ErrorHandler)
Ok(v)          == [ ok |-> TRUE, value |-> v ]
Err(kind, msg) == [ ok |-> FALSE, kind |-> kind, message |-> msg, status |-> 0 ]

\* the unit value of Ok(())
Unit == << >>

\* ------------------------------------------------------------ strings
\* a string is the sequence of its characters; the part of a text that no
\* operation looks into is carried as one element
EmptyString == << >>

\* str::is_empty
IsEmpty(s) == Len(s) = 0

\* str::starts_with
StartsWith(s, prefix) ==
    /\ Len(s) >= Len(prefix)
    /\ SubSeq(s, 1, Len(prefix)) = prefix

\* the literal "https://"
Https == << "h", "t", "t", "p", "s", ":", "/", "/" >>

\* the literal "http://"
Http == << "h", "t", "t", "p", ":", "/", "/" >>

\* the constant the User-Agent defaults are built from
USER_AGENT == << "USER_AGENT" >>

\* the message of the constant INVALID_ENDPOINT
INVALID_ENDPOINT == "Endpoint must be a valid HTTPS URL"

\* ----------------------------------------------------------- Duration
\* std::time::Duration: whole seconds and the nanoseconds beyond them
FromSecs(s) == [ secs |-> s, nanos |-> 0 ]

\* Duration::as_secs drops the nanoseconds
AsSecs(d) == d.secs

\* mutant: no duration counts as zero
IsZeroNever(d) == FALSE

\* Duration::is_zero
IsZero(d) == d.secs = 0 /\ d.nanos = 0

\* --------------------------------------------------------- ClientConfig
\* ClientConfig::default
DefaultConfig ==
    [ api_base_url |-> Https \o << "api.ironshield.cloud" >>,
      num_threads  |-> None,
      timeout      |-> FromSecs(30),
      user_agent   |-> USER_AGENT,
      verbose      |-> FALSE ]

\* ClientConfig::development
DevelopmentConfig ==
    [ api_base_url |-> Https \o << "dev-api.ironshield.cloud" >>,
      num_threads  |-> Some(1),
      timeout      |-> FromSecs(60),
      user_agent   |-> USER_AGENT \o << "-dev" >>,
      verbose      |-> TRUE ]

\* ClientConfig::testing
TestingConfig ==
    [ api_base_url |-> Http \o << "localhost:3000" >>,
      num_threads  |-> Some(1),
      timeout      |-> FromSecs(5),
      user_agent   |-> USER_AGENT \o << "-test" >>,
      verbose      |-> FALSE ]

\* the values explored for the public fields of a ClientConfig
Urls ==
    { EmptyString,
      DefaultConfig.api_base_url,
      TestingConfig.api_base_url,
      << "h", "t", "t", "p", "s", ":", "/" >>,
      << "f", "t", "p", ":", "/", "/", "a" >> }

ThreadOverrides == {None} \cup { Some(n) : n \in 0 .. MaxThreads }

Timeouts ==
    { [ secs |-> s, nanos |-> n ] : s \in {0, 30, 601}, n \in {0, 500000000} }

UserAgents == { EmptyString, USER_AGENT, DevelopmentConfig.user_agent }

ClientConfigs ==
    [ api_base_url : Urls, num_threads : ThreadOverrides, timeout : Timeouts,
      user_agent : UserAgents, verbose : BOOLEAN ]

\* mutant: validate without the check of num_threads
ValidateSkipsThreads(c) ==
    IF IsEmpty(c.api_base_url)
    THEN Err("ConfigurationError", "API base URL cannot be empty")
    ELSE IF ~StartsWith(c.api_base_url, Https)
    THEN Err("ConfigurationError", INVALID_ENDPOINT)
    ELSE IF IsZero(c.timeout)
    THEN Err("ConfigurationError", "Timeout must be greater than zero")
    ELSE IF IsEmpty(c.user_agent)
    THEN Err("ConfigurationError", "User agent cannot be empty")
    ELSE Ok(Unit)

\* ClientConfig::validate
Validate(c) ==
    IF IsEmpty(c.api_base_url)
    THEN Err("ConfigurationError", "API base URL cannot be empty")
    ELSE IF ~StartsWith(c.api_base_url, Https)
    THEN Err("ConfigurationError", INVALID_ENDPOINT)
    ELSE IF IsZero(c.timeout)
    THEN Err("ConfigurationError", "Timeout must be greater than zero")
    ELSE IF IsSome(c.num_threads) /\ Unwrap(c.num_threads) = 0
    THEN Err("ConfigurationError", "Number of threads must be greater than zero")
    ELSE IF IsEmpty(c.user_agent)
    THEN Err("ConfigurationError", "User agent cannot be empty")
    ELSE Ok(Unit)

\* toml::to_string_pretty of a ClientConfig: the document keeps every field,
\* the timeout through duration_serde::serialize as whole seconds
TomlSerialize(c) ==
    [ api_base_url |-> c.api_base_url,
      num_threads  |-> c.num_threads,
      timeout      |-> AsSecs(c.timeout),
      user_agent   |-> c.user_agent,
      verbose      |-> c.verbose ]

\* toml::from_str of such a document: the timeout through
\* duration_serde::deserialize, which reads an integer of seconds
TomlParse(doc) ==
    [ api_base_url |-> doc.api_base_url,
      num_threads  |-> doc.num_threads,
      timeout      |-> FromSecs(doc.timeout),
      user_agent   |-> doc.user_agent,
      verbose      |-> doc.verbose ]

\* no operation was called yet
NoOp == [ name |-> "none" ]

\* the configuration file does not exist
NoFile ==
    [ exists |-> FALSE, parses |-> FALSE, doc |-> TomlSerialize(DefaultConfig) ]

\* a configuration file holding this document
FileOf(doc) == [ exists |-> TRUE, parses |-> TRUE, doc |-> doc ]

\* a configuration file whose content toml::from_str cannot parse
MalformedFile ==
    [ exists |-> TRUE, parses |-> FALSE, doc |-> TomlSerialize(DefaultConfig) ]

\* the files found on disk before any operation: none, an unparseable one,
\* the defaults, a plain-http URL
Files ==
    { NoFile, MalformedFile,
      FileOf(TomlSerialize(DefaultConfig)),
      FileOf([ TomlSerialize(DefaultConfig) EXCEPT
                 !.api_base_url = Http \o << "example.com" >> ]) }

\* ------------------------------------------------------ HttpClientBuilder
\* HttpClientBuilder::default
HttpClientBuilderDefault ==
    [ timeout |-> FromSecs(30), user_agent |-> USER_AGENT,
      accept_invalid_certs |-> FALSE ]

\* HttpClientBuilder::timeout
WithTimeout(builder, t) == [ builder EXCEPT !.timeout = t ]

\* HttpClientBuilder::build: the reqwest client sends these with every request
Build(builder) ==
    [ timeout |-> builder.timeout, user_agent |-> builder.user_agent,
      accept_invalid_certs |-> builder.accept_invalid_certs ]

\* IronShieldClient::new after the check of the URL
NewClient(c) ==
    [ config |-> c,
      http_client |-> Build(WithTimeout(HttpClientBuilderDefault, c.timeout)) ]

\* no client was built yet
NoClient == [ name |-> "none" ]

\* ------------------------------------------------------ the wire, replies
\* the protected endpoints a challenge is requested for
Endpoints == { "https://example.com/protected" }

\* the challenges and tokens the API can hand out
Challenges == { "challenge-A", "challenge-B" }
Tokens     == { "token-A" }

\* the nonce a successful solve_challenge puts into its response
SolvedNonces == { 0 }

\* a JSON value under the key "status": absent, not an unsigned integer, or
\* an unsigned integer
JsonStatuses ==
    { [ t |-> "absent", v |-> 0 ], [ t |-> "other", v |-> 0 ] }
    \cup { [ t |-> "uint", v |-> n ] : n \in {0, 200, 422, 65536, 65736} }

\* a JSON value under the key "message": a string or not
JsonMessages ==
    { [ present |-> FALSE, text |-> "" ],
      [ present |-> TRUE, text |-> "Invalid solution" ] }

\* a JSON value under a payload key: absent, present but not deserialisable,
\* or the serialisation of v
Absent  == [ t |-> "absent", v |-> "" ]
Bad     == [ t |-> "bad", v |-> "" ]
Good(v) == [ t |-> "good", v |-> v ]

\* a response body that is not JSON
NotJson ==
    [ json |-> FALSE, status |-> [ t |-> "absent", v |-> 0 ],
      message |-> [ present |-> FALSE, text |-> "" ],
      challenge |-> Absent, token |-> Absent ]

\* the JSON envelopes explored; an envelope carries at most one payload
Envelopes ==
    { [ json |-> TRUE, status |-> s, message |-> m,
        challenge |-> p[1], token |-> p[2] ] :
        s \in JsonStatuses, m \in JsonMessages,
        p \in ({Absent, Bad} \cup { Good(c) : c \in Challenges }) \X {Absent}
              \cup {Absent} \X ({Bad} \cup { Good(k) : k \in Tokens }) }

\* reqwest's StatusCode::is_success
IsSuccessStatus(s) == s >= 200 /\ s <= 299

\* what the network does with one request: no reply at all (connection
\* failure, timeout), or an HTTP reply
NetError      == [ kind |-> "error", status |-> 0, body |-> NotJson ]
HttpReply(s, b) == [ kind |-> "http", status |-> s, body |-> b ]

NetOutcomes ==
    {NetError}
    \cup { HttpReply(s, b) : s \in {200, 204}, b \in {NotJson} \cup Envelopes }
    \cup { HttpReply(s, b) : s \in {404, 500},
             b \in {NotJson} \cup { e \in Envelopes :
                        /\ e.status = [ t |-> "uint", v |-> 200 ]
                        /\ e.message.present
                        /\ e.challenge = Good("challenge-A") } }

\* the request make_api_request builds
Request(cl, path, body) ==
    [ method       |-> "POST",
      url          |-> cl.config.api_base_url \o << path >>,
      content_type |-> "application/json",
      user_agent   |-> cl.http_client.user_agent,
      timeout      |-> cl.http_client.timeout,
      body         |-> body ]

\* mutant: a request that got no reply is sent again
PostsWithRetry(req, net) ==
    IF net.kind = "error" THEN << req, req >> ELSE << req >>

\* make_api_request: the requests one call puts on the wire
Posts(req, net) == << req >>

\* the ProcessingError of a reply whose status is not a success
StatusError(s) ==
    [ ok |-> FALSE, kind |-> "ProcessingError",
      message |-> "API request failed with status: ", status |-> s ]

\* make_api_request: what the call returns
MakeApiRequest(net) ==
    IF net.kind = "error" THEN Err("NetworkError", "send")
    ELSE IF ~IsSuccessStatus(net.status) THEN StatusError(net.status)
    ELSE IF ~net.body.json THEN Err("NetworkError", "decode")
    ELSE Ok(net.body)

\* ------------------------------------------------------------ ApiResponse
\* the width of the status field: u16
U16 == 65536

\* ApiResponse::from_json
FromJson(response) ==
    [ status  |-> IF response.status.t = "uint"
                  THEN response.status.v % U16 ELSE 0,
      message |-> IF response.message.present
                  THEN response.message.text ELSE "No message",
      data    |-> response ]

\* ApiResponse::is_success
IsSuccess(api) == api.status = 200

\* mutant: the payload is extracted whatever the status
ExtractChallengeAnyStatus(api) ==
    IF api.data.challenge.t = "absent"
    THEN Err("ProcessingError", "No 'challenge' field in API response")
    ELSE IF api.data.challenge.t = "bad"
    THEN Err("SerializationError", "serde_json")
    ELSE Ok(api.data.challenge.v)

\* ApiResponse::extract_challenge
ExtractChallenge(api) ==
    IF ~IsSuccess(api) THEN Err("ProcessingError", api.message)
    ELSE IF api.data.challenge.t = "absent"
    THEN Err("ProcessingError", "No 'challenge' field in API response")
    ELSE IF api.data.challenge.t = "bad"
    THEN Err("SerializationError", "serde_json")
    ELSE Ok(api.data.challenge.v)

\* ApiResponse::extract_token
ExtractToken(api) ==
    IF ~IsSuccess(api) THEN Err("ProcessingError", api.message)
    ELSE IF api.data.token.t = "absent"
    THEN Err("ProcessingError", "No 'token' field in API response")
    ELSE IF api.data.token.t = "bad"
    THEN Err("SerializationError", "serde_json")
    ELSE Ok(api.data.token.v)

\* mutant: the error of a step is replaced on the way out
QuestionMarkWraps(e) == Err("InternalError", e.message)

\* validate_challenge: the `?` after a step hands the error on as it is
QuestionMark(e) == e

\* ----------------------------------------------------- idle components
\* the configuration and the client while only the solver runs
ClientIdle ==
    /\ client = NoClient
    /\ cpc = "idle"
    /\ sent = << >>
    /\ calls = << >>
    /\ validated = NoResult

\* ------------------------------------------------------------ display.rs
\* the decimal digits
Digits == << "0", "1", "2", "3", "4", "5", "6", "7", "8", "9" >>

\* num.to_string(), as a sequence of characters
RECURSIVE U64ToString(_)
U64ToString(num) ==
    IF num < 10 THEN << Digits[num + 1] >>
    ELSE Append(U64ToString(num \div 10), Digits[(num % 10) + 1])

\* the loop of format_number_with_commas from index i on
RECURSIVE FormatLoop(_, _, _)
FormatLoop(chars, i, result) ==
    IF i = Len(chars) THEN result
    ELSE FormatLoop(chars, i + 1,
             Append(IF i > 0 /\ (Len(chars) - i) % 3 = 0
                    THEN Append(result, ",") ELSE result,
                    chars[i + 1]))

\* mutant: the comma is pushed at index 0 too
FormatNumberWithCommasLeading(num) ==
    IF Len(U64ToString(num)) % 3 = 0
    THEN << "," >> \o FormatLoop(U64ToString(num), 0, << >>)
    ELSE FormatLoop(U64ToString(num), 0, << >>)

\* format_number_with_commas
FormatNumberWithCommas(num) == FormatLoop(U64ToString(num), 0, << >>)

\* dots_patterns
DotsPatterns == << "|", "/", "-", "\\" >>

\* what is written to the terminal
DifficultyLine(text) == [ kind |-> "difficulty", text |-> text ]
Frame(pattern)       == [ kind |-> "frame", text |-> << pattern >> ]
EraseLine            == [ kind |-> "erase", text |-> << >> ]

\* the animation task right after tokio::spawn
SpawnedAnimation == [ st |-> "first_tick", pattern_index |-> 0, late |-> 0 ]

\* no ProgressAnimation exists
TerminalIdle ==
    /\ scenario = "none"
    /\ verbose = FALSE
    /\ running = FALSE
    /\ tasks = << >>
    /\ handle = None
    /\ awaited = None
    /\ stdout = << >>
    /\ caller = "idle"
    /\ strategy_result = [ kind |-> "None", log_panics |-> FALSE ]
    /\ ncalls = 0
    /\ recommended_attempts = 0

\* ------------------------------------------- create_progress_callback
\* the callbacks of two workers
Reporters == 0 .. 1

\* a callback right after create_progress_callback
NewCallback ==
    [ cumulative_attempts |-> 0,   \* the AtomicU64 of the closure
      calls    |-> 0,              \* invocations of the closure
      elapsed  |-> 0,              \* thread_start_time.elapsed() at the last one
      reported |-> 0,              \* sum of the batch sizes of the events
      events   |-> 0,              \* events emitted
      last     |-> [ total |-> 0, hash_rate |-> 0, elapsed_millis |-> 0 ] ]

\* the hash rate of a progress event
HashRate(total_attempts, elapsed_millis) ==
    IF elapsed_millis > 0
    THEN (total_attempts * 1000) \div elapsed_millis
    ELSE total_attempts

\* no callback was called
ReporterIdle == progress = [ i \in Reporters |-> NewCallback ]

LibraryIdle ==
    /\ config = DefaultConfig
    /\ op = NoOp
    /\ file = NoFile
    /\ ClientIdle
    /\ TerminalIdle
    /\ ReporterIdle

\* ------------------------------------------------------------------- Init
\* the state when solve_challenge is called, for a given choice of oracles
InitWith(oracles) ==
    /\ num_threads \in {None} \cup { Some(n) : n \in 0 .. MaxThreads }
    /\ use_multithreaded \in BOOLEAN
    /\ sol \in oracles
    /\ pc = "entry"
    /\ thread_count = 0
    /\ flag_created = FALSE
    /\ solution_found = FALSE
    /\ thread_id = 0
    /\ handles = << >>
    /\ other_handles = << >>
    /\ thread_index = 0
    /\ found = NoResult
    /\ aborted = {}
    /\ workers = [ i \in Threads |-> Unspawned ]
    /\ coord_ret = << >>
    /\ outcome = NoResult
    /\ LibraryIdle

Init == InitWith({ s \in SUBSET Nonces : Cardinality(s) <= MaxSol })

\* the challenges with exactly one accepted nonce
LiveInit == InitWith({ {k} : k \in Nonces })

\* ------------------------------------------------------ solve_challenge
\* solve_challenge up to the choice of the solving strategy; SolveConfig::new
\* reads the number of cores from num_cpus::get()
SolveChallengeStart ==
    /\ pc = "entry"
    /\ \E available_cores \in 1 .. MaxCores :
          thread_count' = SolveConfigNew(num_threads, available_cores, use_multithreaded)
    /\ pc' = IF UseMultiPath(use_multithreaded, thread_count')
             THEN "mt_enter" ELSE "st_spawn"
    /\ UNCHANGED << inputs, flag_created, solution_found, thread_id, handles,
                    other_handles, thread_index, found, aborted, workers,
                    coord_ret, outcome >>

\* log_solution_performance divides the nonce by thread_count
LogPanics(r) == r.kind = "Ok" /\ thread_count = 0

\* solve_challenge after the strategy returned: log, then return the result
SolveChallengeFinish ==
    /\ pc = "finish"
    /\ LET r == coord_ret[Len(coord_ret)] IN
         IF LogPanics(r)
         THEN pc' = "panicked" /\ UNCHANGED outcome
         ELSE pc' = "done" /\ outcome' = r
    /\ UNCHANGED << inputs, thread_count, flag_created, solution_found,
                    thread_id, handles, other_handles, thread_index, found,
                    aborted, workers, coord_ret >>

\* -------------------------------------------------- solve_single_threaded
SingleSpawn ==
    /\ pc = "st_spawn"
    /\ workers' = [ workers EXCEPT ![0] = Spawned(SingleOffset, SingleStride, FALSE) ]
    /\ pc' = "st_await"
    /\ UNCHANGED << inputs, thread_count, flag_created, solution_found,
                    thread_id, handles, other_handles, thread_index, found,
                    aborted, coord_ret, outcome >>

\* the match on handle.await
SingleResult(r) ==
    IF r.kind = "Ok" THEN r
    ELSE IF r.kind = "JoinError" THEN ErrResult("SingleTaskFailed")
    ELSE ErrResult("SingleFailed")

SingleAwait ==
    /\ pc = "st_await"
    /\ Ready(0)
    /\ coord_ret' = Append(coord_ret, SingleResult(JoinResult(0)))
    /\ pc' = "finish"
    /\ UNCHANGED << inputs, thread_count, flag_created, solution_found,
                    thread_id, handles, other_handles, thread_index, found,
                    aborted, workers, outcome >>

\* ---------------------------------------------------- solve_multithreaded
SolveMultithreadedEnter ==
    /\ pc = "mt_enter"
    /\ flag_created' = TRUE
    /\ solution_found' = FlagInitial
    /\ handles' = << >>
    /\ thread_id' = 0
    /\ pc' = "spawn"
    /\ UNCHANGED << inputs, thread_count, other_handles, thread_index, found,
                    aborted, workers, coord_ret, outcome >>

\* one iteration of the spawn loop; after the last one wait_for_solution runs
SpawnWorker ==
    /\ pc = "spawn"
    /\ thread_id < thread_count
    /\ workers' = [ workers EXCEPT ![thread_id] =
                      Spawned(ThreadOffset(thread_id), ThreadStride(thread_count), TRUE) ]
    /\ handles' = Append(handles, thread_id)
    /\ thread_id' = thread_id + 1
    /\ pc' = IF thread_id + 1 < thread_count THEN "spawn" ELSE "select"
    /\ UNCHANGED << inputs, thread_count, flag_created, solution_found,
                    other_handles, thread_index, found, aborted, coord_ret,
                    outcome >>

\* ------------------------------------------------------ wait_for_solution
\* select_all resolves: (result, thread_index, other_handles)
SelectAll(kinds) ==
    /\ pc = "select"
    /\ Len(handles) > 0
    /\ \E j \in 1 .. Len(handles) : Ready(handles[j])
    /\ LET idx == SelectAllIndex(handles)
           r   == JoinResult(handles[idx])
       IN /\ r.kind \in kinds
          /\ found' = r
          /\ thread_index' = idx - 1
          /\ other_handles' = SwapRemove(handles, idx)

\* mutant: a success is recorded but the loop goes on with the other handles
SelectSuccessContinues ==
    /\ SelectAll({"Ok"})
    /\ handles' = other_handles'
    /\ coord_ret' = Append(coord_ret, found')
    /\ pc' = "select"
    /\ UNCHANGED << inputs, thread_count, flag_created, solution_found,
                    thread_id, aborted, workers, outcome >>

\* Ok(Ok(found_solution))
SelectSuccess ==
    /\ SelectAll({"Ok"})
    /\ handles' = << >>
    /\ pc' = "store"
    /\ UNCHANGED << inputs, thread_count, flag_created, solution_found,
                    thread_id, aborted, workers, coord_ret, outcome >>

\* mutant: the first worker error ends the wait with NoSolution
SelectWorkerErrorGivesUp ==
    /\ SelectAll({"ThreadFailed"})
    /\ handles' = other_handles'
    /\ coord_ret' = Append(coord_ret, ErrResult("NoSolution"))
    /\ pc' = "finish"
    /\ UNCHANGED << inputs, thread_count, flag_created, solution_found,
                    thread_id, aborted, workers, outcome >>

\* Ok(Err(e)): log, handles = other_handles
SelectWorkerError ==
    /\ SelectAll({"ThreadFailed"})
    /\ handles' = other_handles'
    /\ pc' = "select"
    /\ UNCHANGED << inputs, thread_count, flag_created, solution_found,
                    thread_id, aborted, workers, coord_ret, outcome >>

\* mutant: a join failure raises the flag
SelectJoinErrorSetsFlag ==
    /\ SelectAll({"JoinError"})
    /\ handles' = other_handles'
    /\ solution_found' = TRUE
    /\ pc' = "select"
    /\ UNCHANGED << inputs, thread_count, flag_created,
                    thread_id, aborted, workers, coord_ret, outcome >>

\* Err(e): log, handles = other_handles
SelectJoinError ==
    /\ SelectAll({"JoinError"})
    /\ handles' = other_handles'
    /\ pc' = "select"
    /\ UNCHANGED << inputs, thread_count, flag_created, solution_found,
                    thread_id, aborted, workers, coord_ret, outcome >>

\* the value stored into solution_found on success
StoreValue == TRUE

\* solution_found.store(true, Relaxed)
StoreFlag ==
    /\ pc = "store"
    /\ solution_found' = StoreValue
    /\ pc' = "abort"
    /\ UNCHANGED << inputs, thread_count, flag_created, thread_id, handles,
                    other_handles, thread_index, found, aborted, workers,
                    coord_ret, outcome >>

\* JoinHandle::abort on a blocking task: cancels it only if it has not started
AbortTask(w) == IF w.st = "queued" THEN [ w EXCEPT !.st = "cancelled" ] ELSE w

\* mutant: the peer handle is dropped without abort()
AbortPeerSkipped ==
    /\ pc = "abort"
    /\ other_handles # << >>
    /\ other_handles' = Tail(other_handles)
    /\ UNCHANGED << inputs, pc, thread_count, flag_created, solution_found,
                    thread_id, handles, thread_index, found, aborted, workers,
                    coord_ret, outcome >>

\* one iteration of: for handle in other_handles { handle.abort(); }
AbortPeer ==
    /\ pc = "abort"
    /\ other_handles # << >>
    /\ LET h == Head(other_handles) IN
         /\ aborted' = aborted \cup {h}
         /\ workers' = [ workers EXCEPT ![h] = AbortTask(@) ]
    /\ other_handles' = Tail(other_handles)
    /\ UNCHANGED << inputs, pc, thread_count, flag_created, solution_found,
                    thread_id, handles, thread_index, found, coord_ret,
                    outcome >>

\* mutant: the index select_all returned is passed off as the solution
ReturnFoundIndex ==
    /\ pc = "abort"
    /\ other_handles = << >>
    /\ coord_ret' = Append(coord_ret, OkResult(thread_index))
    /\ pc' = "finish"
    /\ UNCHANGED << inputs, thread_count, flag_created, solution_found,
                    thread_id, handles, other_handles, thread_index, found,
                    aborted, workers, outcome >>

\* return Ok(found_solution)
ReturnFound ==
    /\ pc = "abort"
    /\ other_handles = << >>
    /\ coord_ret' = Append(coord_ret, found)
    /\ pc' = "finish"
    /\ UNCHANGED << inputs, thread_count, flag_created, solution_found,
                    thread_id, handles, other_handles, thread_index, found,
                    aborted, workers, outcome >>

\* the loop ended with no handle left
ReturnNoSolution ==
    /\ pc = "select"
    /\ Len(handles) = 0
    /\ coord_ret' = Append(coord_ret, ErrResult("NoSolution"))
    /\ pc' = "finish"
    /\ UNCHANGED << inputs, thread_count, flag_created, solution_found,
                    thread_id, handles, other_handles, thread_index, found,
                    aborted, workers, outcome >>

\* ------------------------------------------------------------- the workers
\* a thread of the blocking pool picks the task up
WorkerStart(i) ==
    /\ workers[i].st = "queued"
    /\ workers' = [ workers EXCEPT ![i].st = "running" ]
    /\ UNCHANGED << inputs, coord >>

\* one hash evaluation of the search loop of the core's find_solution_*:
\* nonces offset, offset + stride, ... until the oracle accepts one or the
\* nonce space is exhausted. The core is handed the challenge, the offset,
\* the stride and the callback only (solve.rs 190-196): it holds no reference
\* to solution_found, and the callback returns nothing to it, so the search
\* goes on after every callback.
SearchStep(w) ==
    IF w.nonce > MaxNonce
    THEN [ w EXCEPT !.st = "finished",
                    !.res = ErrResult(IF w.cb THEN "ThreadFailed" ELSE "CoreError") ]
    ELSE IF w.nonce \in sol
    THEN [ w EXCEPT !.st = "finished", !.res = OkResult(w.nonce) ]
    ELSE IF w.cb /\ w.batch + 1 = BatchSize
    THEN [ w EXCEPT !.nonce = w.nonce + w.stride, !.batch = 0, !.ph = "cb_load" ]
    ELSE [ w EXCEPT !.nonce = w.nonce + w.stride, !.batch = (w.batch + 1) % BatchSize ]

WorkerSearch(i) ==
    /\ workers[i].st = "running"
    /\ workers[i].ph = "search"
    /\ workers' = [ workers EXCEPT ![i] = SearchStep(@) ]
    /\ UNCHANGED << inputs, coord >>

\* the blocking task panics: its JoinHandle yields a JoinError
WorkerPanic(i) ==
    /\ workers[i].st = "running"
    /\ workers[i].ph = "search"
    /\ workers' = [ workers EXCEPT ![i].st = "panicked" ]
    /\ UNCHANGED << inputs, coord >>

\* mutant: the callback ignores the flag
CallbackNeverSkips(flag) == FALSE

\* progress callback: if solution_found.load(Relaxed) { return; }
CallbackSkips(flag) == flag

CallbackLoad(i) ==
    /\ workers[i].st = "running"
    /\ workers[i].ph = "cb_load"
    /\ workers' = [ workers EXCEPT ![i].ph =
                      IF CallbackSkips(solution_found) THEN "search" ELSE "cb_add" ]
    /\ UNCHANGED << inputs, coord >>

\* progress callback: cumulative_attempts.fetch_add(batch_attempts)
CallbackAdd(i) ==
    /\ workers[i].st = "running"
    /\ workers[i].ph = "cb_add"
    /\ workers' = [ workers EXCEPT ![i].cumulative = @ + BatchSize,
                                   ![i].ph = "cb_emit" ]
    /\ UNCHANGED << inputs, coord >>

\* progress callback: the progress line is emitted, the callback returns
CallbackEmit(i) ==
    /\ workers[i].st = "running"
    /\ workers[i].ph = "cb_emit"
    /\ workers' = [ workers EXCEPT ![i].emitted = @ + 1, ![i].ph = "search" ]
    /\ UNCHANGED << inputs, coord >>

\* ------------------------------------------------------------------- Next
Next ==
    \/ SolveChallengeStart
    \/ SolveChallengeFinish
    \/ SingleSpawn
    \/ SingleAwait
    \/ SolveMultithreadedEnter
    \/ SpawnWorker
    \/ SelectSuccess
    \/ SelectWorkerError
    \/ SelectJoinError
    \/ StoreFlag
    \/ AbortPeer
    \/ ReturnFound
    \/ ReturnNoSolution
    \/ \E i \in Threads : WorkerStart(i)
    \/ \E i \in Threads : WorkerSearch(i)
    \/ \E i \in Threads : WorkerPanic(i)
    \/ \E i \in Threads : CallbackLoad(i)
    \/ \E i \in Threads : CallbackAdd(i)
    \/ \E i \in Threads : CallbackEmit(i)

Spec == Init /\ [][Next]_vars

\* ---------------------------------------------------------------- fairness
\* the task running solve_challenge is polled whenever it can proceed
CoordinatorStep ==
    \/ SolveChallengeStart
    \/ SolveChallengeFinish
    \/ SingleSpawn
    \/ SingleAwait
    \/ SolveMultithreadedEnter
    \/ SpawnWorker
    \/ SelectSuccess
    \/ SelectWorkerError
    \/ SelectJoinError
    \/ StoreFlag
    \/ AbortPeer
    \/ ReturnFound
    \/ ReturnNoSolution

\* a step of blocking task i that is not a panic
WorkerStep(i) ==
    \/ WorkerStart(i)
    \/ WorkerSearch(i)
    \/ CallbackLoad(i)
    \/ CallbackAdd(i)
    \/ CallbackEmit(i)

\* the worker whose progression holds the only solution
IsWinner(i) ==
    /\ Cardinality(sol) = 1
    /\ thread_count > 0
    /\ \A k \in sol : k % thread_count = i

WinnerStep == \E i \in Threads : IsWinner(i) /\ WorkerStep(i)

\* the runtime keeps polling the coordinator, and the blocking pool keeps
\* running the winning worker
LiveSpec ==
    LiveInit /\ [][Next]_vars /\ WF_vars(CoordinatorStep) /\ WF_vars(WinnerStep)

\* challenges with at most one accepted nonce
FairInit == InitWith({ s \in SUBSET Nonces : Cardinality(s) <= 1 })

\* the runtime keeps polling the coordinator, and the blocking pool runs every
\* spawned task until it completes
FairSpec ==
    /\ FairInit /\ [][Next]_vars
    /\ WF_vars(CoordinatorStep)
    /\ \A i \in Threads : WF_vars(WorkerStep(i))

\* ============================================== ClientConfig operations
\* the solver variables
solver == << num_threads, use_multithreaded, sol, coord, workers >>

configVars == << config, op, file >>
clientVars == << client, cpc, sent, calls, validated >>

\* the solver while solve_challenge has not been called
SolverIdle ==
    /\ num_threads = None
    /\ use_multithreaded = FALSE
    /\ sol = {}
    /\ pc = "uncalled"
    /\ thread_count = 0
    /\ flag_created = FALSE
    /\ solution_found = FALSE
    /\ thread_id = 0
    /\ handles = << >>
    /\ other_handles = << >>
    /\ thread_index = 0
    /\ found = NoResult
    /\ aborted = {}
    /\ workers = [ i \in Threads |-> Unspawned ]
    /\ coord_ret = << >>
    /\ outcome = NoResult

\* a ClientConfig with any values in its public fields, before any operation
ConfigInit ==
    /\ config \in ClientConfigs
    /\ op = NoOp
    /\ file \in Files
    /\ ClientIdle
    /\ SolverIdle
    /\ TerminalIdle
    /\ ReporterIdle

\* config.validate()
ConfigValidate ==
    /\ op' = [ name |-> "validate", result |-> Validate(config) ]
    /\ UNCHANGED << config, file, clientVars, solver, terminal, progress >>

\* SolveConfig::new(&config, use_multithreaded); num_cpus::get() gives the cores
SolveConfigNewCall ==
    /\ \E available_cores \in 1 .. MaxCores, multi \in BOOLEAN :
          op' = [ name |-> "solve_config_new",
                  available_cores |-> available_cores,
                  use_multithreaded |-> multi,
                  thread_count |->
                      SolveConfigNew(config.num_threads, available_cores, multi) ]
    /\ UNCHANGED << config, file, clientVars, solver, terminal, progress >>

\* config.set_timeout(timeout)
SetTimeout ==
    /\ \E timeout \in Timeouts :
          IF IsZero(timeout)
          THEN /\ op' = [ name |-> "set_timeout", arg |-> timeout,
                          result |-> Err("ConfigurationError",
                                         "Timeout must be greater than zero") ]
               /\ UNCHANGED config
          ELSE /\ config' = [ config EXCEPT !.timeout = timeout ]
               /\ op' = [ name |-> "set_timeout", arg |-> timeout,
                          result |-> Ok(Unit) ]
    /\ UNCHANGED << file, clientVars, solver, terminal, progress >>

\* config.save_to_file(path); the write itself can fail
SaveToFile ==
    /\ IF ~Validate(config).ok
       THEN /\ op' = [ name |-> "save_to_file", result |-> Validate(config) ]
            /\ UNCHANGED file
       ELSE \E written \in BOOLEAN :
               IF written
               THEN /\ file' = FileOf(TomlSerialize(config))
                    /\ op' = [ name |-> "save_to_file", result |-> Ok(Unit) ]
               ELSE /\ op' = [ name |-> "save_to_file",
                               result |-> Err("Io", "write") ]
                    /\ UNCHANGED file
    /\ UNCHANGED << config, clientVars, solver, terminal, progress >>

\* from_file: the error of a parsed configuration that validate rejects;
\* the text of validate's error is appended to the message
ValidationFailed(e) ==
    [ ok |-> FALSE, kind |-> "ConfigurationError",
      message |-> "Configuration validation failed: ", status |-> 0,
      cause |-> e.message ]

\* mutant: the parsed configuration is returned without validate
LoadDocumentUnchecked(doc) == Ok(TomlParse(doc))

\* what from_file makes of a document it could read and parse
LoadDocument(doc) ==
    IF Validate(TomlParse(doc)).ok
    THEN Ok(TomlParse(doc))
    ELSE ValidationFailed(Validate(TomlParse(doc)))

\* ClientConfig::from_file(path); reading an existing file can fail.
\* stderr counts the notices written with eprintln!
FromFile ==
    /\ IF ~file.exists
       THEN op' = [ name |-> "from_file", result |-> Ok(DefaultConfig),
                    stderr |-> 1 ]
       ELSE \E readable \in BOOLEAN :
               op' = [ name |-> "from_file",
                       result |-> IF ~readable THEN Err("Io", "read")
                                  ELSE IF ~file.parses
                                  THEN Err("ConfigurationError",
                                           "Failed to parse TOML config file")
                                  ELSE LoadDocument(file.doc),
                       stderr |-> 0 ]
    /\ UNCHANGED << config, file, clientVars, solver, terminal, progress >>

\* config.set_api_base_url(url)
SetApiBaseUrl ==
    /\ \E url \in Urls :
          IF IsEmpty(url)
          THEN /\ op' = [ name |-> "set_api_base_url",
                          result |-> Err("ConfigurationError",
                                         "API base URL cannot be empty") ]
               /\ UNCHANGED config
          ELSE IF ~StartsWith(url, Http) /\ ~StartsWith(url, Https)
          THEN /\ op' = [ name |-> "set_api_base_url",
                          result |-> Err("ConfigurationError",
                              "API base URL must start with http:// or https://") ]
               /\ UNCHANGED config
          ELSE /\ config' = [ config EXCEPT !.api_base_url = url ]
               /\ op' = [ name |-> "set_api_base_url",
                          result |-> Ok(Unit) ]
    /\ UNCHANGED << file, clientVars, solver, terminal, progress >>

\* config.set_num_threads(threads)
SetNumThreads ==
    /\ \E threads \in ThreadOverrides :
          IF IsSome(threads) /\ Unwrap(threads) = 0
          THEN /\ op' = [ name |-> "set_num_threads",
                          result |-> Err("ConfigurationError",
                              "Number of threads must be greater than zero") ]
               /\ UNCHANGED config
          ELSE /\ config' = [ config EXCEPT !.num_threads = threads ]
               /\ op' = [ name |-> "set_num_threads",
                          result |-> Ok(Unit) ]
    /\ UNCHANGED << file, clientVars, solver, terminal, progress >>

\* config.set_verbose(verbose)
SetVerbose ==
    /\ \E v \in BOOLEAN :
          /\ config' = [ config EXCEPT !.verbose = v ]
          /\ op' = [ name |-> "set_verbose", result |-> Ok(Unit) ]
    /\ UNCHANGED << file, clientVars, solver, terminal, progress >>

\* config.set_user_agent(user_agent)
SetUserAgent ==
    /\ \E user_agent \in UserAgents :
          IF IsEmpty(user_agent)
          THEN /\ op' = [ name |-> "set_user_agent",
                          result |-> Err("ConfigurationError",
                                         "User agent cannot be empty") ]
               /\ UNCHANGED config
          ELSE /\ config' = [ config EXCEPT !.user_agent = user_agent ]
               /\ op' = [ name |-> "set_user_agent",
                          result |-> Ok(Unit) ]
    /\ UNCHANGED << file, clientVars, solver, terminal, progress >>

ConfigNext ==
    \/ ConfigValidate
    \/ SolveConfigNewCall
    \/ SetTimeout
    \/ SaveToFile
    \/ FromFile
    \/ SetApiBaseUrl
    \/ SetNumThreads
    \/ SetVerbose
    \/ SetUserAgent

ConfigSpec == ConfigInit /\ [][ConfigNext]_vars

\* ================================== IronShieldClient, validate_challenge
\* the configurations the crate's constructors give
Profiles == { DefaultConfig, DevelopmentConfig, TestingConfig }

ClientInit ==
    /\ config \in Profiles
    /\ op = NoOp
    /\ file = NoFile
    /\ client = NoClient
    /\ cpc = "new"
    /\ sent = << >>
    /\ calls = << >>
    /\ validated = NoResult
    /\ SolverIdle
    /\ TerminalIdle
    /\ ReporterIdle

\* IronShieldClient::new(config); building the reqwest client can fail
ClientNew ==
    /\ cpc = "new"
    /\ IF ~StartsWith(config.api_base_url, Https)
       THEN /\ client' = Err("ConfigurationError", INVALID_ENDPOINT)
            /\ cpc' = "rejected"
       ELSE \E built \in BOOLEAN :
               IF built
               THEN client' = Ok(NewClient(config)) /\ cpc' = "fetch"
               ELSE client' = Err("NetworkError", "build") /\ cpc' = "rejected"
    /\ UNCHANGED << configVars, sent, calls, validated, solver, terminal, progress >>

\* IronShieldClient::fetch_challenge
FetchChallengeResult(response) ==
    IF response.ok THEN ExtractChallenge(FromJson(response.value))
    ELSE response

\* IronShieldClient::submit_solution
SubmitSolutionResult(response) ==
    IF response.ok THEN ExtractToken(FromJson(response.value))
    ELSE response

\* validate_challenge, line 30: client.fetch_challenge(endpoint).await?
FetchChallenge ==
    /\ cpc = "fetch"
    /\ \E endpoint \in Endpoints, net \in NetOutcomes :
          LET req      == Request(client.value, "/request",
                                  [ endpoint |-> endpoint ])
              response == MakeApiRequest(net)
              result   == FetchChallengeResult(response)
          IN  /\ sent' = sent \o Posts(req, net)
              /\ calls' = Append(calls, [ fn |-> "fetch_challenge",
                                          arg |-> endpoint, net |-> net,
                                          response |-> response,
                                          result |-> result ])
              /\ IF result.ok
                 THEN cpc' = "solve" /\ UNCHANGED validated
                 ELSE cpc' = "returned" /\ validated' = QuestionMark(result)
    /\ UNCHANGED << configVars, client, solver, terminal, progress >>

\* validate_challenge, line 35: solve::solve_challenge(challenge, ..).await?
\* with the results the solver can return
SolveChallengeCall ==
    /\ cpc = "solve"
    /\ \E kind \in {"Ok", "NoSolution", "SingleFailed"}, nonce \in SolvedNonces :
          LET challenge == calls[Len(calls)].result.value
              result    == IF kind = "Ok"
                           THEN Ok([ challenge |-> challenge, nonce |-> nonce ])
                           ELSE Err("ProcessingError", kind)
          IN  /\ calls' = Append(calls, [ fn |-> "solve_challenge",
                                          arg |-> challenge,
                                          result |-> result ])
              /\ IF result.ok
                 THEN cpc' = "submit" /\ UNCHANGED validated
                 ELSE cpc' = "returned" /\ validated' = QuestionMark(result)
    /\ UNCHANGED << configVars, client, sent, solver, terminal, progress >>

\* validate_challenge, lines 40-43: client.submit_solution(&solution).await?
\* and Ok(token)
SubmitSolution ==
    /\ cpc = "submit"
    /\ \E net \in NetOutcomes :
          LET solution == calls[Len(calls)].result.value
              req      == Request(client.value, "/response", solution)
              response == MakeApiRequest(net)
              result   == SubmitSolutionResult(response)
          IN  /\ sent' = sent \o Posts(req, net)
              /\ calls' = Append(calls, [ fn |-> "submit_solution",
                                          arg |-> solution, net |-> net,
                                          response |-> response,
                                          result |-> result ])
              /\ cpc' = "returned"
              /\ validated' = IF result.ok THEN result ELSE QuestionMark(result)
    /\ UNCHANGED << configVars, client, solver, terminal, progress >>

ClientNext ==
    \/ ClientNew
    \/ FetchChallenge
    \/ SolveChallengeCall
    \/ SubmitSolution

ClientSpec == ClientInit /\ [][ClientNext]_vars

\* ========================================= ProgressAnimation (display.rs)
\* the challenges whose difficulty solve_challenge prints
RecommendedAttempts ==
    { 0, 1, 19, 200, 1998, 2000, 24690, 199998, 200000, 2469134,
      1999999998, 2000000000, 2147483647 }

\* a ProgressAnimation::new(config.verbose), used by solve_challenge or by
\* other calls of start and stop
DisplayInit ==
    /\ scenario \in { "solve_challenge", "calls" }
    /\ config \in { [ DefaultConfig EXCEPT !.verbose = v ] : v \in BOOLEAN }
    /\ verbose = config.verbose
    /\ running = FALSE
    /\ tasks = << >>
    /\ handle = None
    /\ awaited = None
    /\ stdout = << >>
    /\ caller = IF scenario = "solve_challenge" THEN "entry" ELSE "idle"
    /\ strategy_result = [ kind |-> "None", log_panics |-> FALSE ]
    /\ ncalls = 0
    /\ recommended_attempts \in
         IF scenario = "solve_challenge" THEN RecommendedAttempts ELSE { 0 }
    /\ op = NoOp
    /\ file = NoFile
    /\ ClientIdle
    /\ SolverIdle
    /\ ReporterIdle

\* the frames written so far
NumFrames == Cardinality({ j \in 1 .. Len(stdout) : stdout[j].kind = "frame" })

\* solve_challenge: println! of the difficulty
PrintDifficulty ==
    /\ scenario = "solve_challenge"
    /\ caller = "entry"
    /\ stdout' = Append(stdout,
          DifficultyLine(FormatNumberWithCommas(recommended_attempts \div 2)))
    /\ caller' = "start"
    /\ UNCHANGED << scenario, verbose, running, tasks, handle, awaited,
                    strategy_result, ncalls, recommended_attempts, progress,
                    configVars, clientVars, solver >>

\* mutant: start never takes the verbose exit
StartReturnsNoneNever(v) == FALSE

\* start: if self.verbose { return None; }
StartReturnsNone(v) == v

\* ProgressAnimation::start
AnimationStart ==
    /\ \/ scenario = "solve_challenge" /\ caller = "start"
       \/ scenario = "calls" /\ caller = "idle" /\ ncalls < MaxCalls
    /\ IF StartReturnsNone(verbose)
       THEN /\ handle' = None
            /\ UNCHANGED << running, tasks >>
       ELSE /\ running' = TRUE
            /\ tasks' = Append(tasks, SpawnedAnimation)
            /\ handle' = Some(Len(tasks) + 1)
    /\ caller' = IF scenario = "solve_challenge" THEN "solving" ELSE "idle"
    /\ ncalls' = IF scenario = "calls" THEN ncalls + 1 ELSE ncalls
    /\ UNCHANGED << scenario, verbose, awaited, stdout, strategy_result,
                    recommended_attempts, progress, configVars, clientVars,
                    solver >>

\* solve_challenge: the solving strategy returns Ok or Err; whether
\* log_solution_performance will panic on a solution (thread_count = 0)
StrategyReturns ==
    /\ caller = "solving"
    /\ \E kind \in { "Ok", "Err" }, panics \in BOOLEAN :
          /\ panics => kind = "Ok"
          /\ strategy_result' = [ kind |-> kind, log_panics |-> panics ]
    /\ caller' = "stop"
    /\ UNCHANGED << scenario, verbose, running, tasks, handle, awaited, stdout,
                    ncalls, recommended_attempts, progress, configVars,
                    clientVars, solver >>

\* ProgressAnimation::stop, first statement: running.store(false)
StopStore ==
    /\ \E h \in { handle, None } :
          /\ \/ scenario = "solve_challenge" /\ caller = "stop" /\ h = handle
             \/ scenario = "calls" /\ caller = "idle" /\ ncalls < MaxCalls
          /\ awaited' = h
          /\ handle' = IF h = handle THEN None ELSE handle
    /\ running' = FALSE
    /\ caller' = "stop_await"
    /\ ncalls' = IF scenario = "calls" THEN ncalls + 1 ELSE ncalls
    /\ UNCHANGED << scenario, verbose, tasks, stdout, strategy_result,
                    recommended_attempts, progress, configVars, clientVars,
                    solver >>

\* mutant: the handle is dropped, not awaited
AwaitCompletesAtOnce(h) == TRUE

\* animation_handle.await completes when the task has ended
AwaitCompletes(h) == tasks[Unwrap(h)].st = "done"

\* ProgressAnimation::stop, the rest: await the handle, erase the line
StopAwait ==
    /\ caller = "stop_await"
    /\ IF IsSome(awaited)
       THEN /\ AwaitCompletes(awaited)
            /\ stdout' = IF ~verbose THEN Append(stdout, EraseLine) ELSE stdout
       ELSE UNCHANGED stdout
    /\ awaited' = None
    /\ caller' = IF scenario = "solve_challenge" THEN "log" ELSE "idle"
    /\ UNCHANGED << scenario, verbose, running, tasks, handle, strategy_result,
                    ncalls, recommended_attempts, progress, configVars,
                    clientVars, solver >>

\* solve_challenge: the match on the result, after stop
SolveChallengeReturns ==
    /\ caller = "log"
    /\ caller' = IF strategy_result.log_panics THEN "panicked" ELSE "returned"
    /\ UNCHANGED << scenario, verbose, running, tasks, handle, awaited, stdout,
                    strategy_result, ncalls, recommended_attempts, progress,
                    configVars, clientVars, solver >>

\* ----------------------------------------------- show_progress_animation
\* what a step of an animation task leaves alone
AnimationFrame ==
    UNCHANGED << scenario, verbose, running, handle, awaited, caller,
                 strategy_result, ncalls, recommended_attempts, progress,
                 configVars, clientVars, solver >>

\* the first timer.tick().await, which fires immediately
AnimFirstTick(t) ==
    /\ t \in 1 .. Len(tasks)
    /\ tasks[t].st = "first_tick"
    /\ tasks' = [ tasks EXCEPT ![t].st = "load" ]
    /\ UNCHANGED stdout
    /\ AnimationFrame

\* while running.load(Relaxed)
AnimLoad(t) ==
    /\ t \in 1 .. Len(tasks)
    /\ tasks[t].st = "load"
    /\ tasks' = [ tasks EXCEPT ![t].st = IF running THEN "print" ELSE "done" ]
    /\ UNCHANGED stdout
    /\ AnimationFrame

\* print! of the frame, flush, advance of pattern_index
AnimPrint(t) ==
    /\ t \in 1 .. Len(tasks)
    /\ tasks[t].st = "print"
    /\ stdout' = Append(stdout, Frame(DotsPatterns[tasks[t].pattern_index + 1]))
    /\ tasks' = [ tasks EXCEPT
                    ![t].pattern_index = (@ + 1) % Len(DotsPatterns),
                    ![t].st = "tick" ]
    /\ AnimationFrame

\* timer.tick().await in the loop: the timer fires; late counts the ticks
\* that fire while the flag is false
AnimTick(t) ==
    /\ t \in 1 .. Len(tasks)
    /\ tasks[t].st = "tick"
    /\ running => NumFrames < MaxFrames
    /\ tasks' = [ tasks EXCEPT
                    ![t].st = "load",
                    ![t].late = IF running THEN @ ELSE @ + 1 ]
    /\ UNCHANGED stdout
    /\ AnimationFrame

DisplayNext ==
    \/ PrintDifficulty
    \/ AnimationStart
    \/ StrategyReturns
    \/ StopStore
    \/ StopAwait
    \/ SolveChallengeReturns
    \/ \E t \in 1 .. MaxCalls : AnimFirstTick(t)
    \/ \E t \in 1 .. MaxCalls : AnimLoad(t)
    \/ \E t \in 1 .. MaxCalls : AnimPrint(t)
    \/ \E t \in 1 .. MaxCalls : AnimTick(t)

\* the task running solve_challenge
SolveChallengeStep ==
    /\ scenario = "solve_challenge"
    /\ \/ PrintDifficulty
       \/ AnimationStart
       \/ StrategyReturns
       \/ StopStore
       \/ StopAwait
       \/ SolveChallengeReturns

\* animation task t
AnimStep(t) ==
    \/ AnimFirstTick(t)
    \/ AnimLoad(t)
    \/ AnimPrint(t)
    \/ AnimTick(t)

\* the runtime keeps polling the task running solve_challenge and the
\* animation tasks, and the timer of an animation task fires
DisplaySpec ==
    /\ DisplayInit /\ [][DisplayNext]_vars
    /\ WF_vars(SolveChallengeStep)
    /\ \A t \in 1 .. MaxCalls : WF_vars(AnimStep(t))

\* ============================================= the progress callbacks
\* milliseconds a worker can have run when it reports
ElapsedMillis == { 0, 1, 3, 1000 }

\* two callbacks were created, no batch was reported
ProgressInit ==
    /\ LibraryIdle
    /\ SolverIdle

\* one call of the closure create_progress_callback returned to worker i
ProgressCallback(i) ==
    /\ progress[i].calls < MaxReports
    /\ \E batch_attempts \in 1 .. BatchSize, elapsed_millis \in ElapsedMillis :
          /\ elapsed_millis >= progress[i].elapsed
          /\ progress' = [ progress EXCEPT ![i] =
               IF CallbackSkips(solution_found)
               THEN [ @ EXCEPT !.calls = @ + 1 ]
               ELSE LET total_attempts == @.cumulative_attempts + batch_attempts
                    IN [ cumulative_attempts |-> total_attempts,
                         calls    |-> @.calls + 1,
                         elapsed  |-> elapsed_millis,
                         reported |-> @.reported + batch_attempts,
                         events   |-> @.events + 1,
                         last     |-> [ total |-> total_attempts,
                                        hash_rate |-> HashRate(total_attempts, elapsed_millis),
                                        elapsed_millis |-> elapsed_millis ] ] ]
    /\ UNCHANGED << configVars, clientVars, solver, terminal >>

\* wait_for_solution stores true into the flag the callbacks share
ProgressFlagStore ==
    /\ ~solution_found
    /\ solution_found' = StoreValue
    /\ UNCHANGED << num_threads, use_multithreaded, sol, pc, thread_count,
                    flag_created, thread_id, handles, other_handles,
                    thread_index, found, aborted, coord_ret, outcome, workers,
                    library >>

ProgressNext ==
    \/ \E i \in Reporters : ProgressCallback(i)
    \/ ProgressFlagStore

ProgressSpec == ProgressInit /\ [][ProgressNext]_vars

\* ================================================================ claims
Range(s) == { s[j] : j \in 1 .. Len(s) }

\* the workers solve_multithreaded spawned
SpawnedSet == { i \in Threads : workers[i].st # "unspawned" }

\* the coordinator has returned a success on the multithreaded path
MultiSuccess ==
    flag_created /\ Len(coord_ret) > 0 /\ coord_ret[1].kind = "Ok"

\* C1: when select_all surfaces a success, the coordinator stores true into
\* the cancellation flag, then calls abort on every handle select_all left
\* over, and returns exactly the surfaced response; errors and join failures
\* surfaced before do not change this.
C1_SuccessCancelsAbortsReturns ==
    /\ [][ (pc = "select" /\ pc' = "store") =>
             ( LET w == handles[thread_index' + 1] IN
                 found' = workers[w].res /\ found'.kind = "Ok" /\
                 Range(other_handles') = Range(handles) \ {w} /\
                 aborted' = {} /\ ~solution_found' ) ]_vars
    /\ [][ (pc = "store" /\ pc' # "store") =>
             pc' = "abort" /\ solution_found' /\ aborted' = {} ]_vars
    /\ [][ (pc = "store" \/ pc = "abort") =>
             ( found' = found /\ aborted \subseteq aborted' /\
               aborted' \cup Range(other_handles') = aborted \cup Range(other_handles) ) ]_vars
    /\ [][ (pc = "abort" /\ pc' # "abort") =>
             ( pc' = "finish" /\ other_handles = << >> /\ solution_found' /\
               coord_ret' = << found >> ) ]_vars

\* a success was returned after an earlier error was dropped and a peer aborted
C1_Witness ==
    /\ MultiSuccess
    /\ pc = "finish"
    /\ aborted # {}
    /\ Cardinality(aborted) < thread_count - 1

\* C2: every response returned by the solving strategy and by
\* solve_challenge, on either path, carries a nonce the oracle accepts and is
\* the unaltered result of a worker that finished.
ProducedByWorker(r) ==
    \E i \in Threads : workers[i].st = "finished" /\ workers[i].res = r

C2_ReturnedSolutionValid ==
    /\ \A j \in 1 .. Len(coord_ret) :
         coord_ret[j].kind = "Ok" =>
            coord_ret[j].nonce \in sol /\ ProducedByWorker(coord_ret[j])
    /\ outcome.kind = "Ok" => outcome.nonce \in sol /\ ProducedByWorker(outcome)

\* the multithreaded path returned a response while a peer held another one
C2_Witness ==
    /\ pc = "done"
    /\ flag_created
    /\ outcome.kind = "Ok"
    /\ \E i \in Threads : workers[i].res.kind = "Ok" /\ workers[i].res # outcome

\* C3: the coordinator returns at most once per invocation, so at most one
\* response; the results of the other workers are never returned.
C3_AtMostOneResponse ==
    /\ Len(coord_ret) <= 1
    /\ pc = "done" => outcome = coord_ret[1]
    /\ outcome.kind # "None" => pc = "done"

\* two workers succeeded, one response was returned
C3_Witness ==
    /\ pc = "done"
    /\ outcome.kind = "Ok"
    /\ Cardinality({ i \in Threads : workers[i].res.kind = "Ok" }) >= 2

\* C4: the cancellation flag is false when created, and once true it stays
\* true (so it goes from false to true at most once).
C4_FlagMonotonic ==
    /\ [][ (~flag_created /\ flag_created') => ~solution_found' ]_vars
    /\ [][ solution_found => solution_found' ]_vars
    /\ [](~flag_created => ~solution_found)

\* the flag was set and workers are still running
C4_Witness ==
    /\ solution_found
    /\ pc = "done"
    /\ \E i \in Threads : workers[i].st = "running"

\* C5 as stated: no progress event is emitted at a point where the flag is
\* already true.
C5_NoEventWhileFlagSet ==
    [][ \A i \in Threads :
          workers'[i].emitted > workers[i].emitted => ~solution_found ]_vars

\* C5 amended: a callback that loads the flag as true returns without
\* touching the counter and without emitting; the counter is updated and an
\* event emitted only by a callback whose own load returned false.
C5_NoEventAfterObservingFlag ==
    [][ \A i \in Threads :
          /\ ( workers[i].ph = "cb_load" /\ solution_found /\ workers'[i] # workers[i] )
               => ( workers'[i].ph = "search" /\
                    workers'[i].emitted = workers[i].emitted /\
                    workers'[i].cumulative = workers[i].cumulative )
          /\ ( workers'[i].ph = "cb_add" /\ workers[i].ph # "cb_add" )
               => ( workers[i].ph = "cb_load" /\ ~solution_found )
          /\ ( workers'[i].cumulative # workers[i].cumulative /\ workers[i].st = "running" )
               => workers[i].ph = "cb_add"
          /\ ( workers'[i].emitted # workers[i].emitted /\ workers[i].st = "running" )
               => ( workers[i].ph = "cb_emit" /\ workers[i].cumulative > 0 ) ]_vars

\* a worker ran its callback with the flag set and went on without an event
C5_Witness ==
    \E i \in Threads :
        /\ solution_found
        /\ workers[i].st = "running"
        /\ workers[i].ph = "search"
        /\ workers[i].batch = 0
        /\ workers[i].nonce = workers[i].offset + BatchSize * workers[i].stride
        /\ workers[i].emitted = 0

\* C6 as stated: a running worker that reaches a batch boundary after the
\* flag was set stops searching and returns Cancelled.
C6_WorkerStopsAtBoundary ==
    [][ \A i \in Threads :
          ( solution_found /\ workers[i].st = "running" /\
            workers[i].ph = "cb_load" /\ workers'[i] # workers[i] )
          => ( workers'[i].st = "finished" /\ workers'[i].res.kind = "Cancelled" ) ]_vars

\* C7: on the multithreaded path NoSolution is returned exactly when every
\* one of the N workers terminated without success; a worker error or join
\* failure only drops that handle, and a later success is still returned.
AllFailed ==
    \A i \in 0 .. (thread_count - 1) : Ready(i) /\ JoinResult(i).kind # "Ok"

C7_NoSolutionIffAllFailed ==
    /\ []( (flag_created /\ Len(coord_ret) > 0) =>
             /\ coord_ret[1].kind = "NoSolution" <=> AllFailed
             /\ coord_ret[1].kind \in {"NoSolution", "Ok"}
             /\ coord_ret[1].kind = "NoSolution" =>
                  ( handles = << >> /\ ~solution_found /\ aborted = {} ) )
    /\ [][ (pc = "select" /\ pc' = "select" /\ handles' # handles) =>
             ( found'.kind \in {"ThreadFailed", "JoinError"} /\
               Len(handles') = Len(handles) - 1 /\
               Range(handles') \subseteq Range(handles) /\
               coord_ret' = coord_ret /\ solution_found' = solution_found /\
               aborted' = aborted /\ workers' = workers ) ]_vars
    /\ [][ (pc = "select" /\ Len(handles) > 0) => coord_ret' = coord_ret ]_vars

\* NoSolution was returned after a worker error and a join failure
C7_Witness ==
    /\ flag_created
    /\ coord_ret = << ErrResult("NoSolution") >>
    /\ \E i \in Threads : workers[i].st = "panicked"
    /\ \E i \in Threads : workers[i].res.kind = "ThreadFailed"

\* C9: solve_multithreaded spawns workers 0..N-1, worker i with offset i and
\* stride N, so every nonce lies in the progression of exactly one worker,
\* worker k mod N, and a worker only ever visits its own progression.
OwnersOf(k, n) ==
    { i \in 0 .. (n - 1) : k \in Progression(ThreadOffset(i), ThreadStride(n)) }

C9_StridePartition ==
    /\ \A n \in 1 .. MaxWorkers : \A k \in Nonces : OwnersOf(k, n) = {k % n}
    /\ flag_created =>
         \A i \in SpawnedSet :
            /\ i < thread_count
            /\ workers[i].offset = i
            /\ workers[i].stride = thread_count
            /\ workers[i].nonce >= workers[i].offset
            /\ (workers[i].nonce - workers[i].offset) % workers[i].stride = 0
            /\ workers[i].nonce <= MaxNonce => workers[i].nonce % thread_count = i
    /\ pc = "spawn" =>
         ( SpawnedSet = 0 .. (thread_id - 1) /\ Len(handles) = thread_id /\
           \A j \in 1 .. Len(handles) : handles[j] = j - 1 )
    /\ (flag_created /\ pc \notin {"mt_enter", "spawn"}) =>
         /\ SpawnedSet = 0 .. (thread_count - 1)
         /\ \A k \in Nonces :
              { i \in SpawnedSet :
                  k \in Progression(workers[i].offset, workers[i].stride) } = {k % thread_count}

\* all N workers are spawned and one of them has moved along its progression
C9_Witness ==
    /\ pc = "select"
    /\ thread_count = MaxThreads
    /\ Len(handles) = thread_count
    /\ \E i \in SpawnedSet : workers[i].nonce > workers[i].offset

\* C10 as stated: the coordinator runs iff use_multithreaded and
\* thread_count > 1; otherwise one worker runs over offset 0, stride 1, no
\* flag is created, nothing is aborted, and solve_challenge returns what that
\* worker returned.
OnMultiPath ==
    pc \in {"mt_enter", "spawn", "select", "store", "abort"} \/ flag_created

C10_SinglePathExactlyOtherwise ==
    /\ pc # "entry" => ( OnMultiPath <=> (use_multithreaded /\ thread_count > 1) )
    /\ (pc # "entry" /\ ~OnMultiPath) =>
         /\ SpawnedSet \subseteq {0}
         /\ ~flag_created /\ ~solution_found /\ aborted = {}
         /\ workers[0].st # "unspawned" =>
              ( workers[0].offset = 0 /\ workers[0].stride = 1 )
         /\ (Ready(0) /\ pc \notin {"st_await", "finish"}) =>
              ( pc = "done" /\ outcome = SingleResult(JoinResult(0)) )

\* C8: with exactly one accepted nonce k and N >= 2 workers, if worker
\* k mod N is scheduled fairly the coordinator eventually returns the
\* response with nonce k, produced by worker k mod N, with the cancellation
\* flag true (a worker whose task panics was not run to the end).
WinnerOf(k) == IF thread_count > 0 THEN k % thread_count ELSE 0

C8_UniqueSolutionWins ==
    \A k \in Nonces :
        ( flag_created /\ sol = {k} )
        ~> ( \/ workers[WinnerOf(k)].st = "panicked"
             \/ /\ coord_ret = << OkResult(k) >>
                /\ solution_found
                /\ workers[WinnerOf(k)].res = OkResult(k)
                /\ workers[WinnerOf(k)].st = "finished" )

\* a worker other than worker 0 won with the only solution, which was not
\* the first nonce of its progression
C8_Witness ==
    /\ Cardinality(sol) = 1
    /\ thread_count = MaxThreads
    /\ solution_found
    /\ Len(coord_ret) = 1
    /\ coord_ret[1].kind = "Ok"
    /\ coord_ret[1].nonce >= thread_count
    /\ WinnerOf(coord_ret[1].nonce) # 0
    /\ workers[WinnerOf(coord_ret[1].nonce)].res = coord_ret[1]

\* ------------------------------------------------------ SolveConfig::new
\* C11 (as the specification states it): every SolveConfig produced by
\* SolveConfig::new has thread_count >= 1, whatever the num_threads override,
\* the number of cores and use_multithreaded.  An override of Some(0) with
\* use_multithreaded = true gives thread_count = 0.
C11_ThreadCountAtLeastOne ==
    op.name = "solve_config_new" => op.thread_count >= 1

\* C12: with use_multithreaded and no override, thread_count is
\* max(1, floor(4C/5)) for C available cores; with an override Some(n) it is n.
C12_DerivedThreadCount ==
    (op.name = "solve_config_new" /\ op.use_multithreaded) =>
        IF config.num_threads = None
        THEN \E q \in 0 .. (4 * op.available_cores) :
                /\ 5 * q <= 4 * op.available_cores
                /\ 4 * op.available_cores < 5 * (q + 1)
                /\ op.thread_count = (IF q >= 1 THEN q ELSE 1)
        ELSE op.thread_count = config.num_threads[1]

\* SolveConfig::new ran on one core without an override: floor(4/5) = 0 is
\* raised to 1
C12_Witness ==
    /\ op.name = "solve_config_new"
    /\ op.use_multithreaded
    /\ config.num_threads = None
    /\ op.available_cores = 1
    /\ op.thread_count = 1

\* ---------------------------------------------------- validate_challenge
\* the steps that call make_api_request
ApiCalls ==
    { i \in 1 .. Len(calls) :
        calls[i].fn = "fetch_challenge" \/ calls[i].fn = "submit_solution" }

\* C13: validate_challenge runs fetch_challenge, solve_challenge and
\* submit_solution in that order, each on the value the step before returned;
\* a step that returns an error is the last one (nothing is sent to /response
\* unless the solver succeeded) and its error is what validate_challenge
\* returns.
C13_StepsInOrderErrorsPropagate ==
    LET n == Len(calls) IN
    /\ n <= 3
    /\ (n >= 1) => (calls[1].fn = "fetch_challenge")
    /\ (n >= 2) => (/\ calls[2].fn = "solve_challenge"
                    /\ calls[1].result.ok
                    /\ calls[2].arg = calls[1].result.value)
    /\ (n >= 3) => (/\ calls[3].fn = "submit_solution"
                    /\ calls[2].result.ok
                    /\ calls[3].arg = calls[2].result.value
                    /\ sent[2].body = calls[2].result.value)
    /\ \A i \in 1 .. n :
          (~calls[i].result.ok) =>
              (i = n /\ cpc = "returned" /\ validated = calls[i].result)
    /\ (n < 3) => (\A k \in 1 .. Len(sent) :
                      sent[k].url # config.api_base_url \o << "/response" >>)
    /\ (n = 3 /\ calls[n].result.ok) =>
          (cpc = "returned" /\ validated = calls[3].result)

\* the solver failed after a successful fetch: validate_challenge returned
\* the solver's error and only the request to /request was sent
C13_Witness ==
    /\ Len(calls) = 2
    /\ ~calls[2].result.ok
    /\ cpc = "returned"
    /\ validated = calls[2].result
    /\ Len(sent) = 1

\* ------------------------------------------------------------ ApiResponse
\* the payload field a step extracts from the envelope it received
PayloadOf(i) ==
    IF calls[i].fn = "fetch_challenge"
    THEN calls[i].response.value.challenge
    ELSE calls[i].response.value.token

\* the fixed text of the error for an absent payload field
AbsentText(i) ==
    IF calls[i].fn = "fetch_challenge"
    THEN "No 'challenge' field in API response"
    ELSE "No 'token' field in API response"

C15_SuccessIffStatus200 ==
    \A i \in ApiCalls :
        calls[i].response.ok =>
            (IsSuccess(FromJson(calls[i].response.value))
                <=> calls[i].response.value.status = [ t |-> "uint", v |-> 200 ])

\* -------------------------------------------------------- make_api_request
\* C16: each call of make_api_request sends exactly one POST, whatever the
\* outcome; a reply whose status is not 2xx gives ProcessingError with that
\* status whatever the body, and a 2xx reply gives the body parsed as JSON.
C16_OnePostPerCall ==
    /\ Len(sent) = Cardinality(ApiCalls)
    /\ \A k \in 1 .. Len(sent) : sent[k].method = "POST"
    /\ \A i \in ApiCalls :
          LET net == calls[i].net
              r   == calls[i].response
          IN  /\ (net.kind = "http" /\ (net.status < 200 \/ net.status > 299)) =>
                    (~r.ok /\ r.kind = "ProcessingError" /\ r.status = net.status)
              /\ (net.kind = "http" /\ net.status >= 200 /\ net.status <= 299
                    /\ net.body.json) =>
                    (r.ok /\ r.value = net.body)

\* the fetch got a 2xx reply that was parsed, the submission got a 404 whose
\* JSON body was not looked at; two requests were sent
C16_Witness ==
    /\ Len(calls) = 3
    /\ Len(sent) = 2
    /\ calls[1].response.ok
    /\ calls[3].net.kind = "http"
    /\ calls[3].net.status = 404
    /\ calls[3].net.body.json
    /\ calls[3].response = StatusError(404)

\* C17 (as the specification states it): every request of a client built
\* from configuration c is POSTed to c.api_base_url + path, carries
\* User-Agent c.user_agent and uses timeout c.timeout.  The client never
\* hands c.user_agent to the builder, so the header is the default.
C17_RequestsFollowConfig ==
    \A k \in 1 .. Len(sent) :
        /\ sent[k].method = "POST"
        /\ \E path \in {"/request", "/response"} :
              sent[k].url = config.api_base_url \o << path >>
        /\ sent[k].user_agent = config.user_agent
        /\ sent[k].timeout = config.timeout

\* ----------------------------------------------------- ClientConfig
\* the URL begins with the eight characters of "https://"
BeginsWithHttps(url) ==
    /\ Len(url) >= 8
    /\ \A k \in 1 .. 8 : url[k] = Https[k]

\* C18: validate returns an error for every configuration whose URL does not
\* begin with https://, whose timeout is zero, whose num_threads is Some(0)
\* or whose user_agent is empty; the default configuration passes.
C18_ValidateRejects ==
    op.name = "validate" =>
        /\ (\/ ~BeginsWithHttps(config.api_base_url)
            \/ (config.timeout.secs = 0 /\ config.timeout.nanos = 0)
            \/ config.num_threads = Some(0)
            \/ config.user_agent = << >>) => ~op.result.ok
        /\ (config = DefaultConfig) => op.result.ok

\* validate ran on a configuration whose only fault is num_threads = Some(0)
C18_Witness ==
    /\ op.name = "validate"
    /\ BeginsWithHttps(config.api_base_url)
    /\ config.timeout.secs > 0
    /\ config.num_threads = Some(0)
    /\ config.user_agent # << >>
    /\ ~op.result.ok

\* the timeouts the last operation accepted
AcceptedTimeouts ==
    IF (op.name = "validate" \/ op.name = "save_to_file") /\ op.result.ok
    THEN {config.timeout}
    ELSE IF op.name = "set_timeout" /\ op.result.ok
    THEN {op.arg}
    ELSE IF op.name = "from_file" /\ op.result.ok
    THEN {op.result.value.timeout}
    ELSE {}

\* C19 (as the specification states it): validate, from_file, save_to_file
\* and set_timeout accept a timeout t only if 1 s <= t <= 600 s.
C19_TimeoutInRange ==
    \A t \in AcceptedTimeouts :
        t.secs >= 1 /\ (t.secs < 600 \/ (t.secs = 600 /\ t.nanos = 0))

\* C19 (amended): validate, from_file, save_to_file and set_timeout accept a
\* timeout only if it is not zero; there is no other lower bound and no upper
\* bound.
C19_TimeoutNonZero ==
    \A t \in AcceptedTimeouts : t.secs > 0 \/ t.nanos > 0

\* validate accepted a timeout of 601 s
C19_Witness ==
    /\ op.name = "validate"
    /\ op.result.ok
    /\ config.timeout = FromSecs(601)

\* C20 (as the specification states it): for every configuration c that
\* passes validate, parsing the TOML serialisation of c gives a configuration
\* equal to c in all five fields, also when the timeout is not a whole number
\* of seconds.  The file holds the timeout as whole seconds.
C20_TomlRoundTrip ==
    (Validate(config).ok /\ file.exists /\ file.parses
        /\ file.doc = TomlSerialize(config)) =>
        TomlParse(file.doc) = config

\* ------------------------------------------------------------- from_file
\* C21 (as the specification states it): from_file on a missing file returns
\* Ok with the defaults, writes one notice to stderr, and the defaults pass
\* validate; on an existing file it returns Ok(c) only if the content parses
\* to c and c passes validate, and otherwise a ConfigurationError (a file
\* with a plain-http URL is rejected citing the HTTPS requirement).  An
\* existing file that cannot be read gives an Io error.
C21_FromFileResults ==
    op.name = "from_file" =>
        /\ (~file.exists) =>
              (/\ op.result = Ok(DefaultConfig)
               /\ op.stderr = 1
               /\ Validate(DefaultConfig).ok)
        /\ (file.exists /\ op.result.ok) =>
              (/\ file.parses
               /\ op.result.value = TomlParse(file.doc)
               /\ Validate(op.result.value).ok)
        /\ (file.exists /\ ~op.result.ok) =>
              (op.result.kind = "ConfigurationError")

\* C21 (amended): as above, except that on an existing file the error is the
\* Io error when the file cannot be read (any I/O error other than NotFound)
\* and a ConfigurationError when it was read but does not parse or the
\* parsed configuration fails validate; a file that was read, parses and
\* validates is returned; a plain-http URL is rejected citing the HTTPS
\* requirement.
C21_FromFileResultsOrIo ==
    op.name = "from_file" =>
        /\ (~file.exists) =>
              (/\ op.result = Ok(DefaultConfig)
               /\ op.stderr = 1
               /\ Validate(DefaultConfig).ok)
        /\ (file.exists /\ op.result.ok) =>
              (/\ file.parses
               /\ op.result.value = TomlParse(file.doc)
               /\ Validate(op.result.value).ok
               /\ op.stderr = 0)
        /\ (file.exists /\ ~op.result.ok) =>
              (\/ op.result.kind = "Io"
               \/ /\ op.result.kind = "ConfigurationError"
                  /\ (~file.parses \/ ~Validate(TomlParse(file.doc)).ok))
        /\ (file.exists /\ file.parses /\ ~op.result.ok
              /\ op.result.kind # "Io"
              /\ file.doc.api_base_url = Http \o << "example.com" >>) =>
              (op.result.cause = INVALID_ENDPOINT)

\* from_file read a file whose URL is http://example.com and rejected it
\* citing the HTTPS requirement
C21_Witness ==
    /\ op.name = "from_file"
    /\ file.exists
    /\ file.parses
    /\ file.doc.api_base_url = Http \o << "example.com" >>
    /\ ~op.result.ok
    /\ op.result.kind = "ConfigurationError"
    /\ op.result.cause = INVALID_ENDPOINT

\* ------------------------------------------------------ testing profile
\* C22 (as the specification states it): http://localhost:<port> is
\* permitted in the testing profile and only there:
\* IronShieldClient::new(ClientConfig::testing()) returns a client, and every
\* other configuration whose URL does not begin with https:// is rejected by
\* IronShieldClient::new and by validate.  new rejects the testing profile.
C22_TestingProfileAdmitted ==
    (cpc # "new") =>
        /\ (config = TestingConfig) =>
              (client.ok \/ client.kind # "ConfigurationError")
        /\ (config # TestingConfig /\ ~BeginsWithHttps(config.api_base_url)) =>
              (~client.ok /\ ~Validate(config).ok)

\* ------------------------------------------------------------- setters
\* the operations that are setters
Setters ==
    { "set_api_base_url", "set_timeout", "set_num_threads", "set_user_agent",
      "set_verbose" }

\* C29 (as the specification states it): a configuration that passes
\* validate still passes it after any setter call, whether the call succeeded
\* or returned an error.  set_api_base_url accepts an http:// URL.
C29_SettersKeepValid ==
    [][ (Validate(config).ok /\ (op'.name \in Setters)) => Validate(config').ok ]_vars

\* ------------------------------------------------- log_solution_performance
\* C30 (as the specification states it): for every SolveConfig that
\* SolveConfig::new can produce, log_solution_performance, which runs when the
\* strategy returned a solution, never divides by zero: thread_count is not 0
\* when it is called.  With the override Some(0) and use_multithreaded = true
\* the single worker finds a solution and the division panics.
C30_ArithmeticDefined ==
    (pc = "finish" /\ coord_ret[Len(coord_ret)].kind = "Ok") => thread_count # 0

\* ------------------------------------------------- the cancellation flag
\* C27: the cancellation flag is true only if a worker's success has been
\* surfaced to the coordinator and is being returned; it is written only by
\* the store after a surfaced success, never on a worker error or a join
\* failure, and when solve_multithreaded returns an error it is false.
C27_FlagOnlyOnSurfacedSuccess ==
    /\ []( solution_found =>
             /\ found.kind = "Ok"
             /\ pc \in {"abort", "finish", "done", "panicked"}
             /\ Len(coord_ret) > 0 => coord_ret = << found >> )
    /\ []( (flag_created /\ Len(coord_ret) > 0 /\ coord_ret[1].kind # "Ok")
             => ~solution_found )
    /\ [][ solution_found' # solution_found =>
             ( pc = "store" /\ found.kind = "Ok" /\ found' = found ) ]_vars
    /\ [][ (pc = "select" /\ pc' = "select") => ~solution_found' ]_vars

\* a success was returned with the flag set after a join failure had been
\* consumed by the loop
C27_Witness ==
    /\ solution_found
    /\ pc = "done"
    /\ outcome.kind = "Ok"
    /\ \E i \in Threads : workers[i].st = "panicked" /\ i \notin aborted

\* ------------------------------------------------- termination of the wait
\* C28: if every spawned worker eventually completes, wait_for_solution
\* eventually returns; an iteration that does not return removes exactly one
\* handle from the pending set, select_all is never called on an empty set,
\* the pending set holds each spawned handle at most once and never a handle
\* that was consumed, so there are at most thread_count awaits.
C28_WaitTerminates ==
    /\ (pc = "select") ~> (pc \in {"done", "panicked"})
    /\ []( pc = "select" =>
             /\ Len(handles) <= thread_count
             /\ Cardinality(Range(handles)) = Len(handles)
             /\ Range(handles) \subseteq 0 .. (thread_count - 1) )
    /\ [][ (pc = "select" /\ coord' # coord /\ Len(handles) = 0) =>
             ( pc' = "finish" /\ handles' = handles /\ found' = found ) ]_vars
    /\ [][ (pc = "select" /\ coord' # coord /\ Len(handles) > 0) =>
             /\ Ready(handles[thread_index' + 1])
             /\ Len(other_handles') = Len(handles) - 1
             /\ Range(other_handles') = Range(handles) \ { handles[thread_index' + 1] } ]_vars
    /\ [][ (pc = "select" /\ coord' # coord /\ pc' = "select") =>
             /\ Len(handles') = Len(handles) - 1
             /\ Range(handles') \subseteq Range(handles)
             /\ Cardinality(Range(handles')) = Cardinality(Range(handles)) - 1 ]_vars

\* every worker failed, the last of thread_count awaits emptied the pending
\* set and the wait returned
C28_Witness ==
    /\ thread_count = MaxThreads
    /\ pc = "done"
    /\ outcome.kind = "NoSolution"
    /\ handles = << >>
    /\ \E i \in Threads : workers[i].res.kind = "ThreadFailed"
    /\ \E i \in Threads : workers[i].st = "panicked"

\* ------------------------------------------------------ ProgressAnimation
\* a call of ProgressAnimation::start returned in this step
StartCalled ==
    \/ caller = "start" /\ caller' = "solving"
    \/ caller = "idle" /\ caller' = "idle" /\ ncalls' = ncalls + 1

\* C23: the spinner is active only when verbosity is off: start spawns the
\* animation task and returns its handle iff verbose is false; when verbose
\* is true start returns None, the running flag is never true and no frame
\* is ever written, over any sequence of start and stop calls.
C23_SpinnerOnlyWhenNotVerbose ==
    /\ []( verbose =>
             ( ~running /\ tasks = << >> /\ handle = None /\ awaited = None /\
               NumFrames = 0 ) )
    /\ [][ StartCalled =>
             /\ ( /\ handle' = Some(Len(tasks'))
                  /\ Len(tasks') = Len(tasks) + 1
                  /\ tasks'[Len(tasks')] = SpawnedAnimation
                  /\ running' ) <=> ~verbose
             /\ verbose => ( handle' = None /\ tasks' = tasks /\ ~running' ) ]_vars

\* with verbose on, start and stop were called MaxCalls times and nothing
\* was written
C23_Witness ==
    /\ verbose
    /\ scenario = "calls"
    /\ ncalls = MaxCalls
    /\ caller = "idle"
    /\ stdout = << >>

\* the value of a sequence of decimal digits
RECURSIVE DecimalValue(_)
DecimalValue(digits) ==
    IF Len(digits) = 0 THEN 0
    ELSE 10 * DecimalValue(SubSeq(digits, 1, Len(digits) - 1))
         + (CHOOSE d \in 0 .. 9 : Digits[d + 1] = digits[Len(digits)])

NotComma(c) == c # ","

\* C24: format_number_with_commas(n) is the decimal representation of n with
\* a comma before every group of exactly three digits counted from the right:
\* without the commas it is the decimal digits of n, the first group has 1 to
\* 3 digits, and there is no leading or trailing comma.
C24_CommaGrouping ==
    (scenario = "solve_challenge" /\ caller # "entry") =>
        LET t == stdout[1].text
            n == recommended_attempts \div 2
            digits == SelectSeq(t, NotComma)
        IN /\ stdout[1].kind = "difficulty"
           /\ \A j \in 1 .. Len(t) : t[j] = "," \/ t[j] \in Range(Digits)
           /\ \A j \in 1 .. Len(t) : t[j] = "," <=> (Len(t) - j + 1) % 4 = 0
           /\ t[1] # "," /\ t[Len(t)] # ","
           /\ DecimalValue(digits) = n
           /\ Len(digits) > 1 => digits[1] # "0"
           /\ \E g \in 1 .. 3 :
                 /\ (Len(digits) - g) % 3 = 0
                 /\ \A j \in 1 .. g : t[j] # ","
                 /\ Len(t) > g => t[g + 1] = ","

\* the difficulty 999,999,999 was printed: three full groups
C24_Witness ==
    /\ scenario = "solve_challenge"
    /\ caller # "entry"
    /\ recommended_attempts = 1999999998
    /\ stdout[1].text =
         << "9", "9", "9", ",", "9", "9", "9", ",", "9", "9", "9" >>

\* solve_challenge runs with verbose off
QuietSolve == scenario = "solve_challenge" /\ ~verbose

\* C25: in every solve_challenge invocation with verbose = false the spinner
\* started before solving is stopped before solve_challenge returns, whether
\* solving succeeded or failed: the flag is cleared, the animation task ends
\* after at most one further timer tick and is awaited, the line is erased,
\* and no frame is written after stop has returned.
C25_SpinnerStoppedBeforeReturn ==
    /\ (QuietSolve /\ caller = "solving") ~> (caller \in { "returned", "panicked" })
    /\ []( (QuietSolve /\ caller \in { "solving", "stop" }) =>
             ( running /\ Len(tasks) = 1 /\ handle = Some(1) ) )
    /\ []( (QuietSolve /\ caller = "stop_await") => ( ~running /\ awaited = Some(1) ) )
    /\ []( (QuietSolve /\ caller \in { "log", "returned", "panicked" }) =>
             /\ ~running
             /\ Len(tasks) = 1
             /\ tasks[1].st = "done"
             /\ tasks[1].late <= 1
             /\ stdout[Len(stdout)] = EraseLine
             /\ strategy_result.kind \in { "Ok", "Err" } )
    /\ [][ (QuietSolve /\ caller \in { "log", "returned", "panicked" }) =>
             stdout' = stdout ]_vars

\* solving failed, the spinner had shown a frame, the task ended after one
\* more tick and solve_challenge returned
C25_Witness ==
    /\ QuietSolve
    /\ caller = "returned"
    /\ strategy_result.kind = "Err"
    /\ NumFrames >= 1
    /\ tasks[1].late = 1

\* ------------------------------------------------------ progress events
\* C26 (as the specification states it): the total of every progress event of
\* worker i is the sum of the batch sizes that worker reported, and its
\* hash_rate is floor(total * 1000 / max(1, elapsed_ms)), also for
\* elapsed_ms = 0.
C26_HashRateFormula ==
    \A i \in Reporters :
        progress[i].events > 0 =>
            /\ progress[i].last.total = progress[i].reported
            /\ progress[i].last.hash_rate =
                 (progress[i].last.total * 1000)
                    \div Max(1, progress[i].last.elapsed_millis)
====
